---- MODULE Spec2Model ----
(***************************************************************************)
(* The @dike.batch decorator (src/dike/_batch.py): a request coalescer     *)
(* that merges concurrent calls into batches.  One coalescer instance, the *)
(* closure state of `decorator`, is shared by a bounded number of calls    *)
(* that run as asyncio tasks.  Control changes hands only at an await, so  *)
(* every action below is the code between two suspension points.           *)
(***************************************************************************)
EXTENDS Integers, Sequences, FiniteSets, TLC

\* ---------------------------------------------------------------- bounds
NCalls == 3     \* calls made to the wrapper in one run
MaxRows == 2    \* longest argument vector of one call

\* -------------------------------------------------------- configuration
target_batch_size == 3

Calls == 1..NCalls
Keys == {"k"}

VARIABLES
  next_free_batch,      \* ordinal of the open batch
  call_args_queue,      \* queued (args, kwargs) of the open batch
  n_rows_in_queue,      \* rows queued in the open batch
  result_ready_events,  \* ordinal -> is the asyncio.Event set
  results,              \* ordinal -> outcome of the operation
  num_results_ready,    \* ordinal -> readers still to come
  pc,                   \* per call: where the task is suspended
  my_batch_no,          \* per call: ordinal yielded by enqueue (-1: none)
  start_index,          \* per call: first row of its range
  stop_index,           \* per call: one past the last row of its range
  call_input,           \* per call: the arguments it was called with
  outcome,              \* per call: what the awaiter of the call received
  leaving,              \* history, per call: what it left the `with` body with
  invocations,          \* history: the invocations of the wrapped operation
  stored,               \* history: the outcomes calculate stored, in order
  deletions,            \* history: ordinals whose entries remove_result deleted
  setup,                \* batch(...): its arguments and how far the setup got
  guard,                \* limit_jobs(...): limit, counter, how far the setup got
  job,                  \* per call of a limit_jobs wrapper: its progress
  guarded,              \* retry(...): its arguments and one call of its wrapper
  wrapping              \* wrap_in_coroutine: its argument, its result, one call

vars == <<next_free_batch, call_args_queue, n_rows_in_queue, result_ready_events,
          results, num_results_ready, pc, my_batch_no, start_index, stop_index,
          call_input, outcome, leaving, invocations, stored, deletions,
          setup, guard, job, guarded, wrapping>>

\* The variables of the coalescer and its calls.
coalescer == <<next_free_batch, call_args_queue, n_rows_in_queue, result_ready_events,
               results, num_results_ready, pc, my_batch_no, start_index, stop_index,
               call_input, outcome, leaving, invocations, stored, deletions>>

\* ------------------------------------------------------------- helpers
Put(f, k, v) == [x \in DOMAIN f \cup {k} |-> IF x = k THEN v ELSE f[x]]
Del(f, k) == [x \in (DOMAIN f) \ {k} |-> f[x]]
EmptyMap == [x \in {} |-> 0]

Min(a, b) == IF a < b THEN a ELSE b

\* Row i of call c, as the value the caller passes in.
Row(c, i) == 10 * c + i
Vec(c, r) == [i \in 1..r |-> Row(c, i)]
NoKwargs == [k \in Keys |-> <<>>]

\* The argument lists a call may be made with: one positional vector of up
\* to MaxRows rows, one keyword vector of at most one row, or nothing at
\* all; vectors may be empty.
Inputs(c) ==
  { [args |-> <<Vec(c, r)>>, keys |-> {}, kwargs |-> NoKwargs] : r \in 0..MaxRows }
  \cup { [args |-> <<>>, keys |-> Keys, kwargs |-> [k \in Keys |-> Vec(c, r)]] : r \in 0..1 }
  \cup { [args |-> <<>>, keys |-> {}, kwargs |-> NoKwargs] }
NoInput == [args |-> <<>>, keys |-> {}, kwargs |-> NoKwargs]

\* What the awaiter of a call receives.
Out(kind, val, err) == [kind |-> kind, val |-> val, err |-> err]
Pending == Out("none", <<>>, 0)
Raise(kind) == Out(kind, <<>>, 0)

\* The closure state of `decorator`, threaded through the code of one step.
Shared ==
  [nfb |-> next_free_batch, queue |-> call_args_queue, nrows |-> n_rows_in_queue,
   events |-> result_ready_events, results |-> results, num |-> num_results_ready,
   inv |-> invocations, stored |-> stored, dels |-> deletions]

Commit(m) ==
  /\ next_free_batch' = m.nfb
  /\ call_args_queue' = m.queue
  /\ n_rows_in_queue' = m.nrows
  /\ result_ready_events' = m.events
  /\ results' = m.results
  /\ num_results_ready' = m.num
  /\ invocations' = m.inv
  /\ stored' = m.stored
  /\ deletions' = m.dels
  /\ UNCHANGED <<setup, guard, job, guarded, wrapping>>

\* -------------------------------------------------- add_args_to_queue
\* (mutant) only the number of positional arguments is compared.
ShapeMismatch_args_only(q, inp) ==
  /\ q # <<>>
  /\ Len(inp.args) # Len(q[1].args)

ShapeMismatch(q, inp) ==
  /\ q # <<>>
  /\ \/ Len(inp.args) # Len(q[1].args)
     \/ inp.keys # q[1].keys

\* (mutant) only positional vectors are counted.
n_rows_call_positional(inp) ==
  IF inp.args # <<>> THEN Len(inp.args[1]) ELSE 0

n_rows_call(inp) ==
  IF inp.args # <<>> THEN Len(inp.args[1])
  ELSE IF inp.keys # {} THEN Len(inp.kwargs[CHOOSE k \in inp.keys : TRUE])
  ELSE 0

\* Returns the state after the call, what it raised ("" if nothing) and the
\* row range (offset, n_rows_in_queue) it returns.
\* (mutant) the new call is put in front of the queue.
add_args_to_queue_in_front(m, inp) ==
  IF ShapeMismatch(m.queue, inp)
  THEN [m |-> m, raised |-> "ValueError:inconsistent", start |-> 0, stop |-> 0]
  ELSE IF n_rows_call(inp) = 0
  THEN [m |-> m, raised |-> "ValueError:empty", start |-> 0, stop |-> 0]
  ELSE [m |-> [m EXCEPT !.queue = <<inp>> \o @, !.nrows = @ + n_rows_call(inp)],
        raised |-> "",
        start |-> m.nrows,
        stop |-> m.nrows + n_rows_call(inp)]

\* (mutant) every call is counted as one row.
add_args_to_queue_one_row(m, inp) ==
  IF ShapeMismatch(m.queue, inp)
  THEN [m |-> m, raised |-> "ValueError:inconsistent", start |-> 0, stop |-> 0]
  ELSE IF n_rows_call(inp) = 0
  THEN [m |-> m, raised |-> "ValueError:empty", start |-> 0, stop |-> 0]
  ELSE [m |-> [m EXCEPT !.queue = Append(@, inp), !.nrows = @ + 1],
        raised |-> "",
        start |-> m.nrows,
        stop |-> m.nrows + n_rows_call(inp)]

add_args_to_queue(m, inp) ==
  IF ShapeMismatch(m.queue, inp)
  THEN [m |-> m, raised |-> "ValueError:inconsistent", start |-> 0, stop |-> 0]
  ELSE IF n_rows_call(inp) = 0
  THEN [m |-> m, raised |-> "ValueError:empty", start |-> 0, stop |-> 0]
  ELSE [m |-> [m EXCEPT !.queue = Append(@, inp), !.nrows = @ + n_rows_call(inp)],
        raised |-> "",
        start |-> m.nrows,
        stop |-> m.nrows + n_rows_call(inp)]

\* ------------------------------------------------ pop_args_from_queue
RECURSIVE Concat(_)
Concat(vs) == IF vs = <<>> THEN <<>> ELSE Head(vs) \o Concat(Tail(vs))

BatchArgs(q) ==
  [j \in 1..Len(q[1].args) |-> Concat([i \in 1..Len(q) |-> q[i].args[j]])]

BatchKwargs(q) ==
  [k \in Keys |-> IF k \in q[1].keys
                  THEN Concat([i \in 1..Len(q) |-> q[i].kwargs[k]])
                  ELSE <<>>]

\* The queue is emptied and the ordinal advanced; the invocation that
\* calculate makes with the popped arguments is entered in the history,
\* with calculate's local n_results.
\* (mutant) the ordinal is not advanced.
pop_args_from_queue_no_advance(m, c, b, trigger) ==
  [m EXCEPT !.queue = <<>>,
            !.nrows = 0,
            !.inv = Append(@, [batch |-> b, by |-> c, trigger |-> trigger,
                               n_results |-> Len(m.queue),
                               args |-> BatchArgs(m.queue),
                               keys |-> m.queue[1].keys,
                               kwargs |-> BatchKwargs(m.queue)])]

\* (mutant) the ordinal is advanced by two.
pop_args_from_queue_skip(m, c, b, trigger) ==
  [m EXCEPT !.queue = <<>>,
            !.nrows = 0,
            !.nfb = @ + 2,
            !.inv = Append(@, [batch |-> b, by |-> c, trigger |-> trigger,
                               n_results |-> Len(m.queue),
                               args |-> BatchArgs(m.queue),
                               keys |-> m.queue[1].keys,
                               kwargs |-> BatchKwargs(m.queue)])]

pop_args_from_queue(m, c, b, trigger) ==
  [m EXCEPT !.queue = <<>>,
            !.nrows = 0,
            !.nfb = @ + 1,
            !.inv = Append(@, [batch |-> b, by |-> c, trigger |-> trigger,
                               n_results |-> Len(m.queue),
                               args |-> BatchArgs(m.queue),
                               keys |-> m.queue[1].keys,
                               kwargs |-> BatchKwargs(m.queue)])]

\* ------------------------------------------------------- the operation
\* The wrapped operation is element-wise on its first argument vector, as
\* the one of test_concurrent_calculations_do_not_clash.
FirstColumn(call) ==
  IF call.args # <<>> THEN call.args[1]
  ELSE call.kwargs[CHOOSE k \in call.keys : TRUE]

func(call) == [i \in 1..Len(FirstColumn(call)) |-> 2 * FirstColumn(call)[i]]

\* ---------------------------------------------------------- get_results
\* (mutant) the slice starts at the beginning of the batch.
Slice_from_zero(v, start, stop) == SubSeq(v, 1, Min(stop, Len(v)))

Slice(v, start, stop) == SubSeq(v, start + 1, Min(stop, Len(v)))

\* (mutant) a stored exception is sliced like a list instead of raised.
get_results_no_raise(m, start, stop, b) ==
  IF b \notin DOMAIN m.results THEN Raise("KeyError:results")
  ELSE Out("value", Slice(m.results[b].values, start, stop), 0)

get_results(m, start, stop, b) ==
  IF b \notin DOMAIN m.results THEN Raise("KeyError:results")
  ELSE IF ~m.results[b].ok THEN Out("UpstreamError", <<>>, m.results[b].error)
  ELSE Out("value", Slice(m.results[b].values, start, stop), 0)

\* -------------------------------------------------------- remove_result
\* (mutant) the entries are deleted one reader too early.
LastReader_early(n) == n <= 2

LastReader(n) == n = 1

\* (mutant) a reader that finds no reader count deletes the event of the
\* batch instead of raising.
remove_result_unready(m, b) ==
  IF b \notin DOMAIN m.num
  THEN IF b \in DOMAIN m.events
       THEN [m |-> [m EXCEPT !.events = Del(@, b),
                             !.dels = Append(@, [batch |-> b, was_set |-> m.events[b]])],
             raised |-> ""]
       ELSE [m |-> m, raised |-> "KeyError:num_results_ready"]
  ELSE IF LastReader(m.num[b])
  THEN [m |-> [m EXCEPT !.events = Del(@, b),
                        !.results = Del(@, b),
                        !.num = Del(@, b),
                        !.dels = Append(@, [batch |-> b, was_set |-> m.events[b]])],
        raised |-> ""]
  ELSE [m |-> [m EXCEPT !.num[b] = @ - 1], raised |-> ""]

remove_result(m, b) ==
  IF b \notin DOMAIN m.num
  THEN [m |-> m, raised |-> "KeyError:num_results_ready"]
  ELSE IF LastReader(m.num[b])
  THEN IF b \notin DOMAIN m.events
       THEN [m |-> m, raised |-> "KeyError:result_ready_events"]
       ELSE IF b \notin DOMAIN m.results
       THEN [m |-> [m EXCEPT !.events = Del(@, b)], raised |-> "KeyError:results"]
       ELSE [m |-> [m EXCEPT !.events = Del(@, b),
                             !.results = Del(@, b),
                             !.num = Del(@, b),
                             !.dels = Append(@, [batch |-> b, was_set |-> m.events[b]])],
             raised |-> ""]
  ELSE [m |-> [m EXCEPT !.num[b] = @ - 1], raised |-> ""]

\* The `finally` of enqueue and the end of the task: an exception raised by
\* remove_result replaces the value or exception the call was leaving with.
Exit(m, c, b, left) ==
  LET r == remove_result(m, b) IN
  /\ Commit(r.m)
  /\ pc' = [pc EXCEPT ![c] = "done"]
  /\ leaving' = [leaving EXCEPT ![c] = left]
  /\ outcome' = [outcome EXCEPT ![c] = IF r.raised # "" THEN Raise(r.raised) ELSE left]

\* ------------------------------------------------------------ calculate
StillOpen(m, b) == m.nfb = b

\* `await calculate(b)` up to the await of the operation; when calculate
\* returns without calling it, wait_for_calculation returns and the call
\* goes on to get_results.
calculate(m, c, b, start, stop, trigger) ==
  IF StillOpen(m, b)
  THEN IF m.queue = <<>>
       THEN Exit(m, c, b, Raise("IndexError"))
       ELSE /\ Commit(pop_args_from_queue(m, c, b, trigger))
            /\ pc' = [pc EXCEPT ![c] = "calc"]
            /\ UNCHANGED <<outcome, leaving>>
  ELSE Exit(m, c, b, get_results(m, start, stop, b))

\* The Event object of ordinal b is set: a waiter holds the object, also
\* after its entry has been deleted from the map.
EventIsSet(b) ==
  \/ b \in DOMAIN result_ready_events /\ result_ready_events[b]
  \/ \E i \in 1..Len(deletions) : deletions[i].batch = b /\ deletions[i].was_set

MyInvocation(c) ==
  invocations[CHOOSE i \in 1..Len(invocations) : invocations[i].by = c]

ErrorOf(c) == CHOOSE i \in 1..Len(invocations) : invocations[i].by = c

\* wait_for_calculation: the two tests that decide who dispatches.
\* (mutant) the target itself does not yet trigger.
ThresholdReached_strict(n) == n > target_batch_size

ThresholdReached(n) == n >= target_batch_size

\* (mutant) a timed-out call never dispatches.
OpenAtTimeout_never(m, b) == FALSE

OpenAtTimeout(m, b) == m.nfb = b

\* ----------------------------------------------------------- batch(...)
\* The arguments batch() is called with, np being whether numpy could be
\* imported.  A valid target is the one the coalescer below runs with.
ArgumentTypes == {"list", "numpy", "string", ""}
TargetChoices == {-1, 0, target_batch_size}
TimeChoices == {-1, 0, 1}
Configurations ==
  [target_batch_size : TargetChoices, max_waiting_time : TimeChoices,
   max_processing_time : TimeChoices, argument_type : ArgumentTypes, np : BOOLEAN]

\* The checks at the head of batch(): what it raises, "" if nothing.
\* (mutant) zero passes for target_batch_size and max_waiting_time.
batch_check_nonneg(cfg) ==
  IF ~(cfg.target_batch_size >= 0) THEN "ValueError:target_batch_size"
  ELSE IF ~(cfg.max_waiting_time >= 0) THEN "ValueError:max_waiting_time"
  ELSE IF cfg.argument_type \notin {"list", "numpy"} THEN "ValueError:argument_type"
  ELSE IF cfg.argument_type = "numpy" /\ ~cfg.np THEN "ValueError:numpy"
  ELSE ""

batch_check(cfg) ==
  IF ~(cfg.target_batch_size > 0) THEN "ValueError:target_batch_size"
  ELSE IF ~(cfg.max_waiting_time > 0) THEN "ValueError:max_waiting_time"
  ELSE IF cfg.argument_type \notin {"list", "numpy"} THEN "ValueError:argument_type"
  ELSE IF cfg.argument_type = "numpy" /\ ~cfg.np THEN "ValueError:numpy"
  ELSE ""

\* setup.status: "new" before batch() runs, "failed" when it raised,
\* "decorator" when it returned the decorator, "batching_call" when the
\* decorator returned the wrapper.
NewSetup(cfg) == [cfg |-> cfg, status |-> "new", raised |-> ""]
DefaultSetup ==
  [cfg |-> [target_batch_size |-> target_batch_size, max_waiting_time |-> 1,
            max_processing_time |-> 1, argument_type |-> "list", np |-> TRUE],
   status |-> "batching_call", raised |-> ""]

\* limit_jobs and its calls before anything happened.
NoGuard == [limit |-> 0, coroutine |-> TRUE, counter |-> 0, status |-> "new", raised |-> ""]
NoJobs == [c \in Calls |-> [state |-> "idle", seen |-> 0, invoked |-> FALSE]]

\* retry and its call before anything happened.  attempts and delay are
\* None or a number: [none |-> TRUE, n |-> 0] stands for None.
None == [none |-> TRUE, n |-> 0]
Some(n) == [none |-> FALSE, n |-> n]
RetryConfig(attempts, delay, backoff, coroutine) ==
  [attempts |-> attempts, delay |-> delay, backoff |-> backoff, coroutine |-> coroutine]
NoResult == [kind |-> "none", of |-> 0, retryable |-> FALSE]
NewRetry(cfg) ==
  [cfg |-> cfg, status |-> "new", raised |-> "", counter |-> 0, next_delay |-> 0,
   calls |-> 0, outcomes |-> <<>>, sleeps |-> <<>>, warnings |-> 0, result |-> NoResult]
NoRetry == NewRetry(RetryConfig(None, None, 1, TRUE))

\* wrap_in_coroutine before it was applied.  A callable is its identity,
\* whether inspect.iscoroutinefunction holds for it, the callable it wraps
\* (-1: none) and what a call with each argument list gives.
WrapArgs == {<<>>, <<1>>}
WrapKwargs == {{}, {"k"}}
WrapInputs == [args : WrapArgs, kwargs : WrapKwargs]
WrapOutcomes == {"a", "b", "raise"}
Callable(id, coroutine, wraps, behaviour) ==
  [id |-> id, coroutine |-> coroutine, wraps |-> wraps, behaviour |-> behaviour]
NoCallable == Callable(-1, FALSE, -1, [i \in WrapInputs |-> "a"])
NewWrapping(f) ==
  [func |-> f, wrapped |-> NoCallable, status |-> "new",
   input |-> [args |-> <<>>, kwargs |-> {}], awaited |-> "none"]
NoWrapping == NewWrapping(NoCallable)

\* ---------------------------------------------------------------- Init
\* The closure state of `decorator` and the calls not yet made.
InitCoalescer ==
  /\ next_free_batch = 0
  /\ call_args_queue = <<>>
  /\ n_rows_in_queue = 0
  /\ result_ready_events = EmptyMap
  /\ results = EmptyMap
  /\ num_results_ready = EmptyMap
  /\ pc = [c \in Calls |-> "idle"]
  /\ my_batch_no = [c \in Calls |-> -1]
  /\ start_index = [c \in Calls |-> 0]
  /\ stop_index = [c \in Calls |-> 0]
  /\ call_input = [c \in Calls |-> NoInput]
  /\ outcome = [c \in Calls |-> Pending]
  /\ leaving = [c \in Calls |-> Pending]
  /\ invocations = <<>>
  /\ stored = <<>>
  /\ deletions = <<>>

\* The coalescer of a valid configuration, its wrapper in place.
Init ==
  /\ InitCoalescer
  /\ setup = DefaultSetup
  /\ guard = NoGuard
  /\ job = NoJobs
  /\ guarded = NoRetry
  /\ wrapping = NoWrapping

locals == <<my_batch_no, start_index, stop_index, call_input>>

\* ------------------------------------------------------------- actions
\* A call of the wrapper: enqueue, add_args_to_queue and wait_for_calculation
\* up to its first await.  Calls are numbered in the order they are made.
batching_call(c, inp) ==
  /\ setup.status = "batching_call"
  /\ pc[c] = "idle"
  /\ \A d \in Calls : d < c => pc[d] # "idle"
  /\ call_input' = [call_input EXCEPT ![c] = inp]
  /\ LET batch_no == next_free_batch
         m1 == IF batch_no \in DOMAIN result_ready_events
               THEN Shared
               ELSE [Shared EXCEPT !.events = Put(@, batch_no, FALSE)]
         a == add_args_to_queue(m1, inp)
     IN IF a.raised # ""
        THEN /\ Commit(a.m)
             /\ pc' = [pc EXCEPT ![c] = "done"]
             /\ outcome' = [outcome EXCEPT ![c] = Raise(a.raised)]
             /\ leaving' = [leaving EXCEPT ![c] = Raise(a.raised)]
             /\ UNCHANGED <<my_batch_no, start_index, stop_index>>
        ELSE /\ my_batch_no' = [my_batch_no EXCEPT ![c] = batch_no]
             /\ start_index' = [start_index EXCEPT ![c] = a.start]
             /\ stop_index' = [stop_index EXCEPT ![c] = a.stop]
             /\ IF ThresholdReached(a.m.nrows)
                THEN calculate(a.m, c, batch_no, a.start, a.stop, "size")
                ELSE /\ Commit(a.m)
                     /\ pc' = [pc EXCEPT ![c] = "wait1"]
                     /\ UNCHANGED <<outcome, leaving>>

\* The operation returns or raises: calculate stores the outcome, the reader
\* count and sets the event; the dispatcher then reads its own result.
\* (mutant) the reader count is one more than the calls of the batch.
calculate_end_overcount(m, b, n_results, res) ==
  [m EXCEPT !.results = Put(@, b, res),
            !.num = Put(@, b, n_results + 1),
            !.stored = Append(@, [batch |-> b, res |-> res])]

calculate_end(m, b, n_results, res) ==
  [m EXCEPT !.results = Put(@, b, res),
            !.num = Put(@, b, n_results),
            !.stored = Append(@, [batch |-> b, res |-> res])]

FuncReturn(c, ok) ==
  /\ pc[c] = "calc"
  /\ LET b == my_batch_no[c]
         res == IF ok THEN [ok |-> TRUE, values |-> func(MyInvocation(c)), error |-> 0]
                ELSE [ok |-> FALSE, values |-> <<>>, error |-> ErrorOf(c)]
         m1 == calculate_end(Shared, b, MyInvocation(c).n_results, res)
     IN IF b \notin DOMAIN m1.events
        THEN Exit(m1, c, b, Raise("KeyError:result_ready_events"))
        ELSE LET m2 == [m1 EXCEPT !.events[b] = TRUE]
             IN Exit(m2, c, b, get_results(m2, start_index[c], stop_index[c], b))
  /\ UNCHANGED locals

\* A waiting call is woken by the event: it reads its result and leaves.
Wake(c) ==
  /\ pc[c] \in {"wait1", "wait2"}
  /\ EventIsSet(my_batch_no[c])
  /\ Exit(Shared, c, my_batch_no[c],
          get_results(Shared, start_index[c], stop_index[c], my_batch_no[c]))
  /\ UNCHANGED locals

\* max_waiting_time elapses in the first wait and the call resumes in the
\* except branch.  wait_for raises TimeoutError also when the event is set
\* between the deadline and the moment the task resumes.
Timeout1(c) ==
  /\ pc[c] = "wait1"
  /\ LET b == my_batch_no[c] IN
     IF OpenAtTimeout(Shared, b)
     THEN calculate(Shared, c, b, start_index[c], stop_index[c], "timeout")
     ELSE IF b \notin DOMAIN result_ready_events
     THEN Exit(Shared, c, b, Raise("KeyError:result_ready_events"))
     ELSE /\ pc' = [pc EXCEPT ![c] = "wait2"]
          /\ Commit(Shared)
          /\ UNCHANGED <<outcome, leaving>>
  /\ UNCHANGED locals

\* max_processing_time elapses in the second wait.
Timeout2(c) ==
  /\ pc[c] = "wait2"
  /\ Exit(Shared, c, my_batch_no[c], Raise("TimeoutError"))
  /\ UNCHANGED locals

\* The task of a waiting call is cancelled.
\* (mutant) the cancellation takes the call's rows out of the ranges of the
\* calls admitted after it.
CancelWaiting_shift(c) ==
  /\ pc[c] \in {"wait1", "wait2"}
  /\ Exit(Shared, c, my_batch_no[c], Raise("CancelledError"))
  /\ start_index' = [d \in Calls |->
        IF my_batch_no[d] = my_batch_no[c] /\ start_index[d] >= stop_index[c]
        THEN start_index[d] - (stop_index[c] - start_index[c]) ELSE start_index[d]]
  /\ stop_index' = [d \in Calls |->
        IF my_batch_no[d] = my_batch_no[c] /\ start_index[d] >= stop_index[c]
        THEN stop_index[d] - (stop_index[c] - start_index[c]) ELSE stop_index[d]]
  /\ UNCHANGED <<my_batch_no, call_input>>

\* (mutant) the cancellation empties the queue of the open batch.
CancelWaiting_purge(c) ==
  /\ pc[c] \in {"wait1", "wait2"}
  /\ Exit(IF my_batch_no[c] = next_free_batch
          THEN [Shared EXCEPT !.queue = <<>>, !.nrows = 0]
          ELSE Shared,
          c, my_batch_no[c], Raise("CancelledError"))
  /\ UNCHANGED locals

CancelWaiting(c) ==
  /\ pc[c] \in {"wait1", "wait2"}
  /\ Exit(Shared, c, my_batch_no[c], Raise("CancelledError"))
  /\ UNCHANGED locals

\* The task of the dispatching call is cancelled while it awaits the
\* operation: CancelledError is no Exception, calculate does not catch it.
CancelDispatcher(c) ==
  /\ pc[c] = "calc"
  /\ Exit(Shared, c, my_batch_no[c], Raise("CancelledError"))
  /\ UNCHANGED locals

Next ==
  \/ \E c \in Calls : \E inp \in Inputs(c) : batching_call(c, inp)
  \/ \E c \in Calls : \E ok \in BOOLEAN : FuncReturn(c, ok)
  \/ \E c \in Calls : Wake(c)
  \/ \E c \in Calls : Timeout1(c)
  \/ \E c \in Calls : Timeout2(c)
  \/ \E c \in Calls : CancelWaiting(c)
  \/ \E c \in Calls : CancelDispatcher(c)

Spec == Init /\ [][Next]_vars

\* ------------------------------------------------------------- fairness
\* The timers of asyncio.wait_for fire and the event loop runs a task whose
\* event is set.  Nothing makes the operation return, a client call the
\* wrapper or cancel a task.
SpecFair ==
  /\ Spec
  /\ \A c \in Calls : WF_vars(Timeout1(c))
  /\ \A c \in Calls : WF_vars(Timeout2(c))
  /\ \A c \in Calls : WF_vars(Wake(c))

\* The timers fire, woken tasks run and every invocation of the operation
\* that is awaited returns or raises.
SpecReturns ==
  /\ SpecFair
  /\ \A c \in Calls : WF_vars(\E ok \in BOOLEAN : FuncReturn(c, ok))

NLive == 2      \* calls made in the runs checked for liveness

\* The runs in which every invocation of the operation ends before
\* max_processing_time has passed, so that no second wait elapses, and in
\* which no task is cancelled.
NextInTime ==
  \/ \E c \in 1..NLive : \E inp \in Inputs(c) : batching_call(c, inp)
  \/ \E c \in Calls : \E ok \in BOOLEAN : FuncReturn(c, ok)
  \/ \E c \in Calls : Wake(c)
  \/ \E c \in Calls : Timeout1(c)

SpecInTime ==
  /\ Init
  /\ [][NextInTime]_vars
  /\ \A c \in Calls : WF_vars(\E ok \in BOOLEAN : FuncReturn(c, ok))
  /\ \A c \in Calls : WF_vars(Timeout1(c))
  /\ \A c \in Calls : WF_vars(Wake(c))

\* ---------------------------------------------- calls with two columns
\* The calls of an operation of two arguments, both vectors given by
\* position or the second one by keyword; the caller is free to pass
\* vectors of different lengths.
ColumnInputs(c) ==
  { [args |-> <<Vec(c, r1), Vec(c, r2)>>, keys |-> {}, kwargs |-> NoKwargs] :
      r1 \in 1..MaxRows, r2 \in 0..MaxRows }
  \cup { [args |-> <<Vec(c, r1)>>, keys |-> Keys, kwargs |-> [k \in Keys |-> Vec(c, r2)]] :
      r1 \in 1..MaxRows, r2 \in 0..MaxRows }

NextColumns ==
  \/ \E c \in Calls : \E inp \in ColumnInputs(c) : batching_call(c, inp)
  \/ \E c \in Calls : \E ok \in BOOLEAN : FuncReturn(c, ok)
  \/ \E c \in Calls : Wake(c)
  \/ \E c \in Calls : Timeout1(c)

SpecColumns == Init /\ [][NextColumns]_vars

\* ------------------------------------------------- setting up a coalescer
\* batch(**cfg) runs its checks and returns the decorator or raises.
batch ==
  /\ setup.status = "new"
  /\ LET r == batch_check(setup.cfg) IN
     setup' = IF r # "" THEN [setup EXCEPT !.status = "failed", !.raised = r]
              ELSE [setup EXCEPT !.status = "decorator"]
  /\ UNCHANGED <<guarded, wrapping, coalescer, guard, job>>

\* The decorator is applied to the operation: it creates the closure state
\* and returns the wrapper.
decorator ==
  /\ setup.status = "decorator"
  /\ setup' = [setup EXCEPT !.status = "batching_call"]
  /\ UNCHANGED <<guarded, wrapping, coalescer, guard, job>>

\* batch() called with any of the configurations, then the calls made to
\* the wrapper, if there is one, up to their first suspension.
InitSetup ==
  /\ InitCoalescer
  /\ setup \in {NewSetup(cfg) : cfg \in Configurations}
  /\ guard = NoGuard
  /\ job = NoJobs
  /\ guarded = NoRetry
  /\ wrapping = NoWrapping

NextSetup ==
  \/ batch
  \/ decorator
  \/ \E c \in Calls : \E inp \in Inputs(c) : batching_call(c, inp)

SpecSetup == InitSetup /\ [][NextSetup]_vars

\* ----------------------------------------------------------- limit_jobs
\* src/dike/_limit_jobs.py.  guard.status: "new" before limit_jobs() runs,
\* "failed" when it or its decorator raised, "decorator" when limit_jobs
\* returned the decorator, "limited_call" when the wrapper exists.
\* job[c].state: "idle", "running" (inside `await func`), "returned",
\* "raised", "cancelled" or "TooManyCalls"; job[c].seen: the calls running
\* when c was made; job[c].invoked: func was called for c.
MaxLimit == 2
Limits == -1..MaxLimit

Running == {c \in Calls : job[c].state = "running"}

\* (mutant) the test lets one call more through.
Exhausted_negative(counter) == counter < 0

Exhausted(counter) == counter = 0

\* (mutant) the limit is not checked.
limit_jobs_unchecked ==
  /\ guard.status = "new"
  /\ guard' = [guard EXCEPT !.status = "decorator", !.counter = guard.limit]
  /\ UNCHANGED <<guarded, wrapping, coalescer, setup, job>>

limit_jobs ==
  /\ guard.status = "new"
  /\ guard' = IF ~(guard.limit >= 0)
              THEN [guard EXCEPT !.status = "failed", !.raised = "ValueError:limit"]
              ELSE [guard EXCEPT !.status = "decorator", !.counter = guard.limit]
  /\ UNCHANGED <<guarded, wrapping, coalescer, setup, job>>

limit_jobs_decorator ==
  /\ guard.status = "decorator"
  /\ guard' = IF ~guard.coroutine
              THEN [guard EXCEPT !.status = "failed", !.raised = "ValueError:coroutine"]
              ELSE [guard EXCEPT !.status = "limited_call"]
  /\ UNCHANGED <<guarded, wrapping, coalescer, setup, job>>

\* A call of the wrapper up to the await of func, or to the raise.
limited_call(c) ==
  /\ guard.status = "limited_call"
  /\ job[c].state = "idle"
  /\ \A d \in Calls : d < c => job[d].state # "idle"
  /\ IF Exhausted(guard.counter)
     THEN /\ job' = [job EXCEPT ![c] = [state |-> "TooManyCalls",
                                        seen |-> Cardinality(Running), invoked |-> FALSE]]
          /\ UNCHANGED guard
     ELSE /\ guard' = [guard EXCEPT !.counter = @ - 1]
          /\ job' = [job EXCEPT ![c] = [state |-> "running",
                                        seen |-> Cardinality(Running), invoked |-> TRUE]]
  /\ UNCHANGED <<guarded, wrapping, coalescer, setup>>

\* func returns or raises: the finally gives the slot back.
JobEnd(c, how) ==
  /\ job[c].state = "running"
  /\ guard' = [guard EXCEPT !.counter = @ + 1]
  /\ job' = [job EXCEPT ![c].state = how]
  /\ UNCHANGED <<guarded, wrapping, coalescer, setup>>

\* The task is cancelled inside `await func`: the finally runs as well.
\* (mutant) the slot is given back by an `except Exception`, which a
\* CancelledError passes by.
JobCancel_leak(c) ==
  /\ job[c].state = "running"
  /\ job' = [job EXCEPT ![c].state = "cancelled"]
  /\ UNCHANGED <<guarded, wrapping, coalescer, setup, guard>>

JobCancel(c) ==
  /\ job[c].state = "running"
  /\ guard' = [guard EXCEPT !.counter = @ + 1]
  /\ job' = [job EXCEPT ![c].state = "cancelled"]
  /\ UNCHANGED <<guarded, wrapping, coalescer, setup>>

InitLimit ==
  /\ InitCoalescer
  /\ setup = DefaultSetup
  /\ guard \in {[NoGuard EXCEPT !.limit = n, !.coroutine = b] : n \in Limits, b \in BOOLEAN}
  /\ job = NoJobs
  /\ guarded = NoRetry
  /\ wrapping = NoWrapping

NextLimit ==
  \/ limit_jobs
  \/ limit_jobs_decorator
  \/ \E c \in Calls : limited_call(c)
  \/ \E c \in Calls : \E how \in {"returned", "raised"} : JobEnd(c, how)
  \/ \E c \in Calls : JobCancel(c)

SpecLimit == InitLimit /\ [][NextLimit]_vars

\* ---------------------------------------------------------------- retry
\* src/dike/_retry.py.  guarded.status: "new" before retry() runs, "failed"
\* when it or its decorator raised, "decorator", "guarded_call" when the
\* wrapper exists and was not called yet; then for the one call made:
\* "func" (inside `await func`), "sleep" (inside `await asyncio.sleep`),
\* "returned", "raised", "cancelled".  guarded.calls counts the invocations
\* of func, guarded.outcomes lists how they ended, guarded.sleeps lists the
\* durations slept, guarded.warnings counts the retries logged.  guarded.result is what the caller received:
\* the value or the exception of invocation `of`, or None.
MaxAttempts == 3     \* largest attempts argument
MaxTries == 4        \* invocations after which func no longer fails retryably
MaxDelay == 2        \* largest delay in seconds
MaxBackoff == 2      \* largest backoff

RetryConfigs ==
  { RetryConfig(a, d, b, co) :
      a \in {None} \cup {Some(n) : n \in -1..MaxAttempts},
      d \in {None} \cup {Some(n) : n \in 1..MaxDelay},
      b \in 1..MaxBackoff,
      co \in BOOLEAN }

\* Python's truth value of an int or None.
Truthy(x) == ~x.none /\ x.n # 0

retry_check(cfg) ==
  IF Truthy(cfg.attempts) /\ ~(cfg.attempts.n >= 0) THEN "ValueError:attempts" ELSE ""

\* (mutant) without attempts the call has one attempt.
InitialCounter_one(attempts) == IF attempts.none THEN 1 ELSE attempts.n

InitialCounter(attempts) == IF attempts.none THEN -1 ELSE attempts.n

InitialDelay(delay) == IF delay.none THEN 0 ELSE delay.n

\* (mutant) the backoff is added.
NextDelay_add(next_delay, backoff) == next_delay + backoff

NextDelay(next_delay, backoff) == next_delay * backoff

\* The head of the loop: `while counter:` invokes func or falls out of the
\* loop, and the function returns None.
loop_head(g) ==
  IF g.counter # 0
  THEN [g EXCEPT !.status = "func", !.calls = @ + 1]
  ELSE [g EXCEPT !.status = "returned",
                 !.result = [kind |-> "None", of |-> 0, retryable |-> FALSE]]

func_returned(g) ==
  [g EXCEPT !.status = "returned",
            !.result = [kind |-> "value", of |-> g.calls, retryable |-> FALSE]]

\* (mutant) the failure is not counted.
func_raised_retryable_uncounted(g) ==
  [g EXCEPT !.status = "sleep",
            !.warnings = @ + 1,
            !.sleeps = Append(@, g.next_delay)]

\* func raises an exception of one of exception_types.
func_raised_retryable(g) ==
  LET counter == g.counter - 1 IN
  IF counter = 0
  THEN [g EXCEPT !.counter = counter,
                 !.status = "raised",
                 !.result = [kind |-> "error", of |-> g.calls, retryable |-> TRUE]]
  ELSE [g EXCEPT !.counter = counter,
                 !.status = "sleep",
                 !.warnings = @ + 1,
                 !.sleeps = Append(@, g.next_delay)]

\* (mutant) every exception is caught.
func_raised_other_caught(g) == func_raised_retryable(g)

\* func raises an exception of another type: no except clause matches.
func_raised_other(g) ==
  [g EXCEPT !.status = "raised",
            !.result = [kind |-> "error", of |-> g.calls, retryable |-> FALSE]]

retry ==
  /\ guarded.status = "new"
  /\ LET r == retry_check(guarded.cfg) IN
     guarded' = IF r # "" THEN [guarded EXCEPT !.status = "failed", !.raised = r]
                ELSE [guarded EXCEPT !.status = "decorator"]
  /\ UNCHANGED <<coalescer, setup, guard, job, wrapping>>

retry_decorator ==
  /\ guarded.status = "decorator"
  /\ guarded' = IF ~guarded.cfg.coroutine
                THEN [guarded EXCEPT !.status = "failed", !.raised = "ValueError:coroutine"]
                ELSE [guarded EXCEPT !.status = "guarded_call"]
  /\ UNCHANGED <<coalescer, setup, guard, job, wrapping>>

\* The call of the wrapper up to its first await or its return.
guarded_call ==
  /\ guarded.status = "guarded_call"
  /\ guarded' = loop_head([guarded EXCEPT !.counter = InitialCounter(guarded.cfg.attempts),
                                          !.next_delay = InitialDelay(guarded.cfg.delay)])
  /\ UNCHANGED <<coalescer, setup, guard, job, wrapping>>

\* func returns, or raises an exception that is or is not of
\* exception_types.  After MaxTries invocations it fails retryably no more.
FuncResult(how) ==
  /\ guarded.status = "func"
  /\ how = "retryable" => guarded.calls < MaxTries
  /\ LET g == [guarded EXCEPT !.outcomes = Append(@, how)] IN
     guarded' = IF how = "return" THEN func_returned(g)
                ELSE IF how = "retryable" THEN func_raised_retryable(g)
                ELSE func_raised_other(g)
  /\ UNCHANGED <<coalescer, setup, guard, job, wrapping>>

\* asyncio.sleep returns: the delay grows and the loop goes round.
SleepEnd ==
  /\ guarded.status = "sleep"
  /\ guarded' = loop_head([guarded EXCEPT
                             !.next_delay = NextDelay(@, guarded.cfg.backoff)])
  /\ UNCHANGED <<coalescer, setup, guard, job, wrapping>>

\* The task is cancelled in one of the two awaits.
RetryCancel ==
  /\ guarded.status \in {"func", "sleep"}
  /\ guarded' = [guarded EXCEPT !.status = "cancelled"]
  /\ UNCHANGED <<coalescer, setup, guard, job, wrapping>>

InitRetry ==
  /\ InitCoalescer
  /\ setup = DefaultSetup
  /\ guard = NoGuard
  /\ job = NoJobs
  /\ guarded \in {NewRetry(cfg) : cfg \in RetryConfigs}
  /\ wrapping = NoWrapping

NextRetry ==
  \/ retry
  \/ retry_decorator
  \/ guarded_call
  \/ \E how \in {"return", "retryable", "other"} : FuncResult(how)
  \/ SleepEnd
  \/ RetryCancel

SpecRetry == InitRetry /\ [][NextRetry]_vars

\* ---------------------------------------------------- wrap_in_coroutine
\* src/dike/__init__.py.  wrapping.status: "new", "wrapped" when
\* wrap_in_coroutine returned, "coroutine" when its result was called with
\* wrapping.input and not awaited yet, "done" when the coroutine was
\* awaited, wrapping.awaited being the value ("a", "b") or "raise".
\* (mutant) _wrapper passes on the positional arguments only.
forward_positional(inp) == [args |-> inp.args, kwargs |-> {}]

\* _wrapper(*args, **kwargs) calls func(*args, **kwargs).
forward(inp) == [args |-> inp.args, kwargs |-> inp.kwargs]

wrap_in_coroutine(f) ==
  IF f.coroutine THEN f
  ELSE Callable(f.id + 1, TRUE, f.id, [i \in WrapInputs |-> f.behaviour[forward(i)]])

Functions ==
  { Callable(0, co, -1, beh) : co \in BOOLEAN, beh \in [WrapInputs -> WrapOutcomes] }

wrap ==
  /\ wrapping.status = "new"
  /\ wrapping' = [wrapping EXCEPT !.wrapped = wrap_in_coroutine(wrapping.func),
                                  !.status = "wrapped"]
  /\ UNCHANGED <<coalescer, setup, guard, job, guarded>>

\* The result of wrap_in_coroutine is called: a coroutine is created.
call_wrapped(inp) ==
  /\ wrapping.status = "wrapped"
  /\ wrapping' = [wrapping EXCEPT !.input = inp, !.status = "coroutine"]
  /\ UNCHANGED <<coalescer, setup, guard, job, guarded>>

\* The coroutine is awaited.
await_wrapped ==
  /\ wrapping.status = "coroutine"
  /\ wrapping' = [wrapping EXCEPT !.awaited = wrapping.wrapped.behaviour[wrapping.input],
                                  !.status = "done"]
  /\ UNCHANGED <<coalescer, setup, guard, job, guarded>>

InitWrap ==
  /\ InitCoalescer
  /\ setup = DefaultSetup
  /\ guard = NoGuard
  /\ job = NoJobs
  /\ guarded = NoRetry
  /\ wrapping \in {NewWrapping(f) : f \in Functions}

NextWrap ==
  \/ wrap
  \/ \E inp \in WrapInputs : call_wrapped(inp)
  \/ await_wrapped

SpecWrap == InitWrap /\ [][NextWrap]_vars

\* ============================================================= claims
Admitted(c) == my_batch_no[c] >= 0
Members(b) == {c \in Calls : my_batch_no[c] = b}
Max(S) == CHOOSE x \in S : \A y \in S : y <= x
OwnRows(c) == FirstColumn(call_input[c])
InvocationOf(b) ==
  invocations[CHOOSE i \in 1..Len(invocations) : invocations[i].batch = b]
Dispatched(b) == \E i \in 1..Len(invocations) : invocations[i].batch = b
RowsOf(v) == Len(FirstColumn(v))

\* C1: the wrapped operation is invoked at most once for every batch
\* ordinal, whatever the interleaving of admissions, threshold crossings
\* and timeouts; a call whose deadline elapses for an ordinal that was
\* already dispatched does not invoke it again.
C1_AtMostOneInvocationPerOrdinal ==
  \A i, j \in 1..Len(invocations) :
    invocations[i].batch = invocations[j].batch => i = j

\* A call timed out for an ordinal another call had dispatched.
C1_Witness ==
  \E c \in Calls :
    /\ pc[c] = "wait2"
    /\ Dispatched(my_batch_no[c])
    /\ InvocationOf(my_batch_no[c]).by # c

\* C2: a call that returns a value returns values[start:stop) of the result
\* stored for its own ordinal, [start, stop) being the range its rows have
\* in the batch's arguments; with the element-wise operation these are the
\* results of exactly the rows it submitted.
C2_ReturnsOwnSlice ==
  \A c \in Calls :
    outcome[c].kind = "value" =>
      /\ \E i \in 1..Len(stored) :
           /\ stored[i].batch = my_batch_no[c]
           /\ stored[i].res.ok
           /\ outcome[c].val
                = SubSeq(stored[i].res.values, start_index[c] + 1, stop_index[c])
      /\ SubSeq(FirstColumn(InvocationOf(my_batch_no[c])),
                start_index[c] + 1, stop_index[c]) = OwnRows(c)
      /\ Len(outcome[c].val) = Len(OwnRows(c))
      /\ \A i \in 1..Len(OwnRows(c)) : outcome[c].val[i] = 2 * OwnRows(c)[i]

\* A call of a later batch has its value while an earlier batch, holding
\* more than one call, is still in flight.
C2_Witness ==
  \E c, d \in Calls :
    /\ pc[c] = "calc"
    /\ Cardinality(Members(my_batch_no[c])) >= 2
    /\ my_batch_no[d] > my_batch_no[c]
    /\ outcome[d].kind = "value"

\* C3: within a batch the row ranges are contiguous, disjoint and in
\* admission order: the first admitted call has [0, r1), every later one
\* starts where the one admitted before it stops; and every positional and
\* keyword vector passed to the operation holds the calls' rows in that
\* order and nothing else.
C3_RangesContiguousFifo ==
  /\ \A c \in Calls :
       Admitted(c) =>
         LET earlier == {d \in Members(my_batch_no[c]) : d < c} IN
         /\ start_index[c] = IF earlier = {} THEN 0 ELSE stop_index[Max(earlier)]
         /\ stop_index[c] = start_index[c] + Len(OwnRows(c))
  /\ \A i \in 1..Len(invocations) :
       LET v == invocations[i] IN
       /\ Members(v.batch) # {}
       /\ \A c \in Members(v.batch) :
            /\ \A j \in 1..Len(v.args) :
                 SubSeq(v.args[j], start_index[c] + 1, stop_index[c])
                   = call_input[c].args[j]
            /\ \A k \in v.keys :
                 SubSeq(v.kwargs[k], start_index[c] + 1, stop_index[c])
                   = call_input[c].kwargs[k]
       /\ \A j \in 1..Len(v.args) :
            Len(v.args[j]) = stop_index[Max(Members(v.batch))]
       /\ \A k \in v.keys :
            Len(v.kwargs[k]) = stop_index[Max(Members(v.batch))]

\* A positional batch of several calls and a keyword batch were dispatched.
C3_Witness ==
  \E i, j \in 1..Len(invocations) :
    /\ invocations[i].n_results >= 2
    /\ invocations[i].keys = {}
    /\ invocations[j].keys = Keys

\* C4: the call whose admission brings the queued rows to target_batch_size
\* or beyond dispatches the batch in the same step, before any suspension,
\* and the one invocation holds every row queued so far, also those beyond
\* the target.
C4_ThresholdCallDispatchesAtOnce ==
  /\ n_rows_in_queue < target_batch_size
  /\ \A c \in Calls :
       Admitted(c) /\ stop_index[c] >= target_batch_size =>
         /\ pc[c] # "wait1"
         /\ \E i \in 1..Len(invocations) :
              LET v == invocations[i] IN
              /\ v.by = c
              /\ v.batch = my_batch_no[c]
              /\ v.trigger = "size"
              /\ RowsOf(v) = stop_index[c]
              /\ v.n_results = Cardinality(Members(v.batch))

\* A batch of several calls was dispatched with more rows than the target.
C4_Witness ==
  \E i \in 1..Len(invocations) :
    /\ invocations[i].trigger = "size"
    /\ invocations[i].n_results >= 2
    /\ RowsOf(invocations[i]) > target_batch_size

\* An invocation has fewer rows than the target exactly if a timeout made
\* it, and then its dispatcher is a member of the batch.
C5_UnderfilledOnlyByTimeout ==
  \A i \in 1..Len(invocations) :
    LET v == invocations[i] IN
    /\ (RowsOf(v) < target_batch_size) <=> (v.trigger = "timeout")
    /\ v.trigger = "timeout" =>
         /\ my_batch_no[v.by] = v.batch
         /\ RowsOf(v) = stop_index[Max(Members(v.batch))]

\* A call that leaves its first wait, uncancelled, while its ordinal is the
\* open one, pops the whole queue and invokes the operation with it.
C5_DeadlineStep ==
  \A c \in Calls :
    ( /\ pc[c] = "wait1"
      /\ pc'[c] # "wait1"
      /\ my_batch_no[c] = next_free_batch
      /\ leaving'[c].kind # "CancelledError" ) =>
        /\ pc'[c] = "calc"
        /\ next_free_batch' = next_free_batch + 1
        /\ call_args_queue' = <<>>
        /\ invocations' = Append(invocations,
             [batch |-> my_batch_no[c], by |-> c, trigger |-> "timeout",
              n_results |-> Len(call_args_queue),
              args |-> BatchArgs(call_args_queue),
              keys |-> call_args_queue[1].keys,
              kwargs |-> BatchKwargs(call_args_queue)])

\* C5: a waiting call whose max_waiting_time elapses while its ordinal is
\* still the open one dispatches the under-filled batch itself, with
\* exactly the rows queued at that moment; and an under-filled batch is
\* dispatched only by a member whose deadline has elapsed.
C5_TimeoutDispatchesOpenBatch ==
  []C5_UnderfilledOnlyByTimeout /\ [][C5_DeadlineStep]_vars

\* Several calls wait in a batch that one of them dispatched on timeout.
C5_Witness ==
  \E i \in 1..Len(invocations) :
    /\ invocations[i].trigger = "timeout"
    /\ invocations[i].n_results >= 2

Failed(b) == \E i \in 1..Len(stored) : stored[i].batch = b /\ ~stored[i].res.ok
ErrorStored(b) ==
  stored[CHOOSE i \in 1..Len(stored) : stored[i].batch = b].res.error

\* C6: a call whose second wait (max_processing_time) elapses receives
\* asyncio.TimeoutError.
C6_SecondTimeoutRaisesTimeout ==
  \A c \in Calls :
    leaving[c].kind = "TimeoutError" => outcome[c].kind = "TimeoutError"

\* C7 (as stated): when the operation raises for a batch, every member of
\* the batch that was not cancelled receives that error.
C7_EveryMemberReceivesError ==
  \A c \in Calls :
    ( /\ Admitted(c)
      /\ pc[c] = "done"
      /\ leaving[c].kind # "CancelledError"
      /\ Failed(my_batch_no[c]) ) =>
        outcome[c] = Out("UpstreamError", <<>>, ErrorStored(my_batch_no[c]))

\* C7 (amended): when the operation raises for a batch, the error is stored
\* once, and every member of the batch that was neither cancelled nor left
\* because its second wait elapsed, the dispatcher included, receives that
\* same error; no member of the batch receives a value, and nobody outside
\* the batch receives the error.
C7_WaitingMembersReceiveError ==
  /\ \A i, j \in 1..Len(stored) : stored[i].batch = stored[j].batch => i = j
  /\ \A c \in Calls :
       ( /\ Admitted(c)
         /\ pc[c] = "done"
         /\ leaving[c].kind \notin {"CancelledError", "TimeoutError"}
         /\ Failed(my_batch_no[c]) ) =>
           outcome[c] = Out("UpstreamError", <<>>, ErrorStored(my_batch_no[c]))
  /\ \A c \in Calls :
       Admitted(c) /\ Failed(my_batch_no[c]) => outcome[c].kind # "value"
  /\ \A c \in Calls :
       outcome[c].kind = "UpstreamError" =>
         /\ Admitted(c)
         /\ Failed(my_batch_no[c])
         /\ outcome[c].err = ErrorStored(my_batch_no[c])

\* Both members of a failed batch have its error, a call of another batch
\* has its value.
C7_Witness ==
  \E c, d, e \in Calls :
    /\ c # d
    /\ my_batch_no[c] = my_batch_no[d]
    /\ outcome[c].kind = "UpstreamError"
    /\ outcome[d].kind = "UpstreamError"
    /\ outcome[c].err = outcome[d].err
    /\ InvocationOf(my_batch_no[c]).by = d
    /\ Admitted(e)
    /\ my_batch_no[e] # my_batch_no[c]
    /\ outcome[e].kind = "value"

\* C8: once every member of a batch has exited (returned, raised, or was
\* cancelled while waiting in arbitration), the ordinal has no event, no
\* result and no reader count, and the queue holds nothing of it.
C8_CancelledCallsStillCleanUp ==
  \A b \in 0..NCalls :
    ( /\ Members(b) # {}
      /\ \A c \in Members(b) :
           /\ pc[c] = "done"
           /\ leaving[c].kind # "TimeoutError"
           /\ leaving[c].kind = "CancelledError" =>
                ~(Dispatched(b) /\ InvocationOf(b).by = c) ) =>
        /\ b \notin DOMAIN result_ready_events
        /\ b \notin DOMAIN results
        /\ b \notin DOMAIN num_results_ready
        /\ b = next_free_batch => call_args_queue = <<>> /\ n_rows_in_queue = 0

\* C9: without cancellation and without Timeout, once a batch has been
\* dispatched and all calls have returned or raised, the queue, the row
\* counter and the three maps are empty.
C9_StorageEmptyAfterAllCalls ==
  ( /\ invocations # <<>>
    /\ \A c \in Calls :
         /\ pc[c] = "done"
         /\ leaving[c].kind \notin {"CancelledError", "TimeoutError"} ) =>
      /\ call_args_queue = <<>>
      /\ n_rows_in_queue = 0
      /\ DOMAIN result_ready_events = {}
      /\ DOMAIN results = {}
      /\ DOMAIN num_results_ready = {}

\* C10: the entries of an ordinal are deleted at most once and never while
\* a call of that batch has still to wait on the event or read the result:
\* no call finds the event or the result of its batch missing.
C10_BufferDestroyedOnceAfterLastReader ==
  /\ \A i, j \in 1..Len(deletions) :
       deletions[i].batch = deletions[j].batch => i = j
  /\ \A c \in Calls :
       Admitted(c) /\ pc[c] # "done" =>
         /\ \A i \in 1..Len(deletions) : deletions[i].batch # my_batch_no[c]
         /\ my_batch_no[c] \in DOMAIN result_ready_events
         /\ EventIsSet(my_batch_no[c]) => my_batch_no[c] \in DOMAIN results
  /\ \A c \in Calls :
       /\ outcome[c].kind \notin {"KeyError:results", "KeyError:result_ready_events"}
       /\ leaving[c].kind \notin {"KeyError:results", "KeyError:result_ready_events"}

\* The entries of a batch of several calls were deleted after all of them
\* had read the outcome.
C10_Witness ==
  \E i \in 1..Len(deletions) :
    /\ Cardinality(Members(deletions[i].batch)) >= 2
    /\ \A c \in Members(deletions[i].batch) :
         pc[c] = "done" /\ outcome[c].kind \in {"value", "UpstreamError"}

\* A call cancelled in one of its two waits: it never dispatched.
CancelledWaiting(c) ==
  /\ leaving[c].kind = "CancelledError"
  /\ \A i \in 1..Len(invocations) : invocations[i].by # c

\* A member that was woken by the event or dispatched the batch itself.
ReadResult(d) ==
  /\ pc[d] = "done"
  /\ leaving[d].kind \notin {"CancelledError", "TimeoutError"}

C11_OthersReceiveOwnSlice ==
  \A c, d \in Calls :
    /\ c # d
    /\ Admitted(c)
    /\ my_batch_no[d] = my_batch_no[c]
    /\ CancelledWaiting(c)
    /\ ReadResult(d)
    => \/ /\ outcome[d].kind = "value"
          /\ Len(outcome[d].val) = Len(OwnRows(d))
          /\ \A i \in 1..Len(OwnRows(d)) : outcome[d].val[i] = 2 * OwnRows(d)[i]
       \/ /\ outcome[d].kind = "UpstreamError"
          /\ Failed(my_batch_no[d])

\* The step in which the task of a waiting call c is cancelled.
C11_CancelStep ==
  \A c \in Calls :
    pc[c] \in {"wait1", "wait2"} /\ leaving'[c].kind = "CancelledError" =>
      /\ UNCHANGED <<invocations, call_args_queue, n_rows_in_queue, next_free_batch>>
      /\ UNCHANGED <<start_index, stop_index, my_batch_no, stored>>
      /\ \A d \in Calls \ {c} :
           /\ pc'[d] = pc[d]
           /\ outcome'[d] = outcome[d]

\* C11: cancelling a call that is only waiting leaves a dispatch in flight
\* alone: the invocations, the queue, the outcomes stored so far and every
\* other call are as before the cancellation, the row ranges are unchanged, and
\* every other member of the batch that reads the result receives the
\* results of its own rows (or the error of the batch).
C11_CancelOfWaiterLeavesBatchIntact ==
  []C11_OthersReceiveOwnSlice /\ [][C11_CancelStep]_vars

\* A waiting call was cancelled before the result of its batch was stored,
\* and a call admitted after it has received its own slice.
C11_Witness ==
  \E c, d \in Calls :
    /\ c < d
    /\ my_batch_no[c] = my_batch_no[d]
    /\ CancelledWaiting(c)
    /\ outcome[c].kind = "KeyError:num_results_ready"
    /\ outcome[d].kind = "value"
    /\ start_index[d] > 0

\* The step in which call c is made and admitted to a batch.
AdmissionStep(c) == pc[c] = "idle" /\ my_batch_no'[c] >= 0
InFlight(k) == \E d \in Calls : pc[d] = "calc" /\ my_batch_no[d] = k

\* C12 as stated: a call admitted while the operation for k is in flight
\* is assigned ordinal k+1 and its row range starts at offset 0.
C12_LateCallGetsNextOrdinalAtZero ==
  [][\A c \in Calls : \A k \in 0..NCalls :
       AdmissionStep(c) /\ InFlight(k) =>
         /\ my_batch_no'[c] = k + 1
         /\ start_index'[c] = 0]_vars

C12_AdmissionStep ==
  \A c \in Calls :
    AdmissionStep(c) =>
      /\ my_batch_no'[c] = next_free_batch
      /\ \A i \in 1..Len(invocations) : invocations[i].batch < my_batch_no'[c]
      /\ \A k \in 0..NCalls : InFlight(k) => my_batch_no'[c] > k
      /\ Len(invocations) > 0 =>
           my_batch_no'[c] = invocations[Len(invocations)].batch + 1
      /\ start_index'[c] = n_rows_in_queue
      /\ call_args_queue = <<>> => start_index'[c] = 0

C12_RowsOnlyInOwnInvocation ==
  \A c \in Calls : \A i \in 1..Len(invocations) :
    Admitted(c) /\ invocations[i].batch # my_batch_no[c] =>
      \A j \in 1..Len(FirstColumn(invocations[i])) : \A r \in 1..Len(OwnRows(c)) :
        FirstColumn(invocations[i])[j] # OwnRows(c)[r]

\* C12 (amended): a call admitted after the dispatch of ordinal k has begun
\* is assigned the open ordinal, which is greater than k and than every
\* ordinal dispatched so far (the latest dispatched ordinal plus one); its
\* row range starts after the rows already queued for that ordinal, at 0
\* when it is the first call admitted since the last dispatch; and its rows
\* are in the arguments of no invocation but that of its own ordinal.
C12_LateCallJoinsOpenOrdinal ==
  []C12_RowsOnlyInOwnInvocation /\ [][C12_AdmissionStep]_vars

\* Two calls were admitted to ordinal k+1 while the operation for k is in
\* flight: the second one does not start at offset 0.
C12_Witness ==
  \E c, d, e \in Calls :
    /\ pc[d] = "calc"
    /\ my_batch_no[c] = my_batch_no[d] + 1
    /\ my_batch_no[e] = my_batch_no[c]
    /\ start_index[c] = 0
    /\ start_index[e] > 0

\* The calls whose arguments are queued, in the order of the queue.
QueuedCalls == Members(next_free_batch)

C13_OneOpenBatch ==
  /\ next_free_batch = Len(invocations)
  /\ \A i \in 1..Len(invocations) : invocations[i].batch = i - 1
  /\ \A c \in Calls :
       Admitted(c) =>
         /\ my_batch_no[c] <= next_free_batch
         /\ my_batch_no[c] < next_free_batch <=> Dispatched(my_batch_no[c])
  /\ Len(call_args_queue) = Cardinality(QueuedCalls)
  /\ \A c \in QueuedCalls :
       call_args_queue[Cardinality({d \in QueuedCalls : d <= c})] = call_input[c]
  /\ n_rows_in_queue = IF QueuedCalls = {} THEN 0 ELSE stop_index[Max(QueuedCalls)]

C13_OrdinalStep ==
  /\ next_free_batch' \in {next_free_batch, next_free_batch + 1}
  /\ next_free_batch' = next_free_batch + 1
       <=> Len(invocations') = Len(invocations) + 1
  /\ Len(invocations') \in {Len(invocations), Len(invocations) + 1}
  /\ Len(invocations') = Len(invocations) + 1 =>
       /\ invocations'[Len(invocations')].batch = next_free_batch
       /\ call_args_queue' = <<>>

\* C13: at most one batch is open: the queue holds exactly the arguments
\* of the calls admitted to the current ordinal and not yet dispatched, in
\* admission order; no call has a higher ordinal and every lower ordinal
\* has been dispatched; the current ordinal never decreases and advances
\* by exactly one in every step that dispatches, and in no other step.
C13_SingleOpenBatchOrdinalAdvancesByOne ==
  []C13_OneOpenBatch /\ [][C13_OrdinalStep]_vars

\* Two batches were dispatched and calls are queued for the third.
C13_Witness ==
  /\ next_free_batch = 2
  /\ call_args_queue # <<>>
  /\ \E c \in Calls : pc[c] = "calc"

\* The step in which call c is made; the arguments it is made with.
CallStep(c) == pc[c] = "idle" /\ pc'[c] # "idle"
Given(c) == call_input'[c]

\* The rows call c submitted, none for a call without arguments.
Submitted(c) == IF n_rows_call(call_input[c]) = 0 THEN <<>> ELSE OwnRows(c)

\* The shape of the call differs from that of the calls queued.
ShapeDiffers(c) ==
  /\ call_args_queue # <<>>
  /\ \/ Len(Given(c).args) # Len(call_args_queue[1].args)
     \/ Given(c).keys # call_args_queue[1].keys

OthersUntouched(c) ==
  /\ UNCHANGED <<call_args_queue, n_rows_in_queue, next_free_batch, invocations, stored>>
  /\ \A d \in Calls \ {c} :
       /\ pc'[d] = pc[d]
       /\ outcome'[d] = outcome[d]
       /\ my_batch_no'[d] = my_batch_no[d]
       /\ start_index'[d] = start_index[d]
       /\ stop_index'[d] = stop_index[d]

C14_MismatchStep ==
  \A c \in Calls :
    CallStep(c) /\ ShapeDiffers(c) =>
      /\ pc'[c] = "done"
      /\ outcome'[c] = Raise("ValueError:inconsistent")
      /\ my_batch_no'[c] = -1
      /\ OthersUntouched(c)

Rejected(c) == outcome[c].kind \in {"ValueError:inconsistent", "ValueError:empty"}

\* No row of a rejected call is queued or was passed to the operation,
\* and every value a call received is the result of its own rows.
RejectedContributeNothing(kind) ==
  /\ \A c \in Calls :
       outcome[c].kind = kind =>
         /\ ~Admitted(c)
         /\ \A r \in 1..Len(Submitted(c)) :
              /\ \A i \in 1..Len(invocations) :
                   \A j \in 1..Len(FirstColumn(invocations[i])) :
                     FirstColumn(invocations[i])[j] # Submitted(c)[r]
              /\ \A i \in 1..Len(call_args_queue) :
                   \A j \in 1..Len(FirstColumn(call_args_queue[i])) :
                     FirstColumn(call_args_queue[i])[j] # Submitted(c)[r]
  /\ \A d \in Calls :
       outcome[d].kind = "value" =>
         /\ Len(outcome[d].val) = Len(OwnRows(d))
         /\ \A i \in 1..Len(OwnRows(d)) : outcome[d].val[i] = 2 * OwnRows(d)[i]

\* C14: a call whose number of positional arguments or whose keyword key
\* set differs from the calls queued in the open batch raises ValueError
\* 'Inconsistent use of positional and keyword arguments' in the step it is
\* made in; the queue, the row counter, the ordinal and every other call
\* are as before, none of its rows reaches the operation, and the queued
\* calls receive the results of their own rows.
C14_ShapeMismatchRejectsThatCallOnly ==
  []RejectedContributeNothing("ValueError:inconsistent") /\ [][C14_MismatchStep]_vars

\* A call was rejected for its shape between two calls of one batch, and
\* the call queued before it has received its value.
C14_Witness ==
  \E d, c, e \in Calls :
    /\ d < c /\ c < e
    /\ outcome[c].kind = "ValueError:inconsistent"
    /\ my_batch_no[d] = my_batch_no[e]
    /\ Admitted(d)
    /\ outcome[d].kind = "value"

\* The row count of an argument list as C15 defines it.
RowCount(inp) ==
  IF Len(inp.args) > 0 THEN Len(inp.args[1])
  ELSE IF inp.keys # {} THEN Len(inp.kwargs[CHOOSE k \in inp.keys : TRUE])
  ELSE 0

\* C15 as stated: every call with zero rows fails with the empty-input
\* error.
C15_ZeroRowsRaiseEmptyInput ==
  [][\A c \in Calls :
       CallStep(c) /\ RowCount(Given(c)) = 0 =>
         outcome'[c] = Raise("ValueError:empty")]_vars

C15_CallStep ==
  \A c \in Calls :
    CallStep(c) =>
      /\ RowCount(Given(c)) = 0 =>
           /\ pc'[c] = "done"
           /\ outcome'[c] = IF ShapeDiffers(c) THEN Raise("ValueError:inconsistent")
                            ELSE Raise("ValueError:empty")
           /\ my_batch_no'[c] = -1
           /\ OthersUntouched(c)
      /\ RowCount(Given(c)) > 0 /\ ~ShapeDiffers(c) =>
           /\ my_batch_no'[c] = next_free_batch
           /\ start_index'[c] = n_rows_in_queue
           /\ stop_index'[c] = start_index'[c] + RowCount(Given(c))
      /\ outcome'[c].kind = "ValueError:empty" => RowCount(Given(c)) = 0

\* C15 (amended): the row count of a call is the length of its first
\* positional vector or, without positional vectors, of one keyword vector,
\* and an admitted call takes that many rows of its batch.  A call with
\* zero rows (also one without arguments) fails in the step it is made in
\* and contributes no rows: with the empty-input ValueError when its shape
\* agrees with the calls queued or nothing is queued, with the shape
\* ValueError when its shape differs from the calls queued.
C15_ZeroRowsRejectedShapeCheckedFirst ==
  []RejectedContributeNothing("ValueError:empty") /\ [][C15_CallStep]_vars

\* An empty vector of the queued calls' shape was rejected as empty input,
\* and a call without arguments was rejected for its shape.
C15_Witness ==
  \E d, c, e \in Calls :
    /\ d < c /\ d < e
    /\ my_batch_no[d] = next_free_batch
    /\ outcome[c].kind = "ValueError:empty"
    /\ Len(call_input[c].args) = Len(call_input[d].args)
    /\ call_input[c].keys = call_input[d].keys
    /\ outcome[e].kind = "ValueError:inconsistent"
    /\ RowCount(call_input[e]) = 0

\* C16: a call rejected with the shape or the empty-input error leaves the
\* queue, the row counter, the current ordinal, the event map, the result
\* map and the reader-count map exactly as they were before the call, also
\* when it is the first call to arrive at an empty open batch.
C16_RejectedCallLeavesBatchStateUnchanged ==
  [][\A c \in Calls :
       CallStep(c) /\ outcome'[c].kind \in {"ValueError:inconsistent", "ValueError:empty"} =>
         UNCHANGED <<call_args_queue, n_rows_in_queue, next_free_batch,
                     result_ready_events, results, num_results_ready>>]_vars

\* The life cycle of ordinal b: 0 Open (not dispatched), 1 Closing
\* (dispatched, no outcome stored), 2 ResultReady (outcome stored), 3
\* Drained (its entries deleted).
Ordinals == 0..NCalls
OutcomeStored(b) == \E i \in 1..Len(stored) : stored[i].batch = b
Drained(b) == \E i \in 1..Len(deletions) : deletions[i].batch = b
Stage(b) ==
  IF Drained(b) THEN 3
  ELSE IF OutcomeStored(b) THEN 2
  ELSE IF Dispatched(b) THEN 1
  ELSE 0

InNoMap(b) ==
  /\ b \notin DOMAIN result_ready_events
  /\ b \notin DOMAIN results
  /\ b \notin DOMAIN num_results_ready

\* What the shared maps hold for an ordinal in each stage.
C18_StageOfMaps ==
  \A b \in Ordinals :
    /\ Stage(b) = 0 =>
         /\ b >= next_free_batch
         /\ b \notin DOMAIN results
         /\ b \notin DOMAIN num_results_ready
         /\ b \in DOMAIN result_ready_events =>
              b = next_free_batch /\ ~result_ready_events[b]
    /\ Stage(b) = 1 =>
         /\ b < next_free_batch
         /\ b \in DOMAIN result_ready_events
         /\ ~result_ready_events[b]
         /\ b \notin DOMAIN results
         /\ b \notin DOMAIN num_results_ready
    /\ Stage(b) = 2 =>
         /\ b \in DOMAIN results
         /\ b \in DOMAIN num_results_ready
         /\ num_results_ready[b] >= 1
         /\ b \in DOMAIN result_ready_events
         /\ result_ready_events[b]
    /\ Stage(b) = 3 =>
         /\ InNoMap(b)
         /\ Dispatched(b)
         /\ OutcomeStored(b)
         /\ \A i \in 1..Len(deletions) : deletions[i].batch = b => deletions[i].was_set

\* An ordinal stays in its stage or moves to the next one.  The step in
\* which the operation returns to the dispatcher of a batch whose other
\* members have all left runs calculate's stores, the set of the event and
\* the dispatcher's remove_result one after the other: the batch is
\* ResultReady inside that step, the deletion finds the event set.
C18_StageStep ==
  \A b \in Ordinals :
    \/ Stage(b)' \in {Stage(b), Stage(b) + 1}
    \/ /\ Stage(b) = 1
       /\ Stage(b)' = 3
       /\ pc[InvocationOf(b).by] = "calc"
       /\ pc'[InvocationOf(b).by] = "done"
       /\ Len(stored') = Len(stored) + 1
       /\ stored'[Len(stored')].batch = b
       /\ deletions' = Append(deletions, [batch |-> b, was_set |-> TRUE])

\* C18: a batch is Open, then Closing, then ResultReady, then Drained,
\* and no step skips a stage or goes back: the entries of an ordinal leave
\* the shared maps only after its outcome was stored and its event set,
\* and no ordinal goes from Open to Drained.
C18_StagesInOrderNoneSkipped ==
  []C18_StageOfMaps /\ [][C18_StageStep]_vars

\* One ordinal in each of the stages Drained, ResultReady and Closing,
\* and calls queued in the open one.
C18_Witness ==
  /\ \E b \in Ordinals : Stage(b) = 3
  /\ \E b \in Ordinals : Stage(b) = 1
  /\ call_args_queue # <<>>

\* The configurations C17 is about.
InvalidConfiguration(cfg) ==
  \/ cfg.target_batch_size <= 0
  \/ cfg.max_waiting_time <= 0
  \/ cfg.argument_type \notin {"list", "numpy"}

Wrapped == guard.status = "limited_call"

\* C19: with a limit N >= 0 at most N calls execute the operation at any
\* time; a call made while N calls are executing, and no other call, raises
\* TooManyCalls in the step it is made in, and the operation is not invoked
\* for it; with N = 0 every call is rejected.
C19_AtMostLimitCallsInFlight ==
  Wrapped =>
    /\ guard.limit >= 0
    /\ Cardinality(Running) <= guard.limit
    /\ \A c \in Calls :
         job[c].state # "idle" =>
           /\ job[c].state = "TooManyCalls" <=> job[c].seen = guard.limit
           /\ job[c].seen <= guard.limit
           /\ job[c].invoked <=> job[c].state # "TooManyCalls"
    /\ guard.limit = 0 => \A c \in Calls : job[c].state \in {"idle", "TooManyCalls"}

\* A call was rejected while a positive limit of calls is executing.
C19_Witness ==
  /\ Wrapped
  /\ guard.limit >= 1
  /\ Cardinality(Running) = guard.limit
  /\ \E c \in Calls : job[c].state = "TooManyCalls"

\* C20: the free slots and the executing calls add up to the limit in
\* every state, whether calls return, raise, are cancelled or are rejected;
\* so when no call is executing every slot is free, and a call made while
\* fewer than `limit` calls execute is admitted.
C20_SlotsNeitherLeakedNorOverReleased ==
  Wrapped =>
    /\ guard.counter + Cardinality(Running) = guard.limit
    /\ guard.counter >= 0
    /\ Running = {} => guard.counter = guard.limit
    /\ \A c \in Calls :
         job[c].state # "idle" /\ job[c].seen < guard.limit => job[c].invoked

\* After a cancelled, a rejected and a finished call every slot is free.
C20_Witness ==
  /\ Wrapped
  /\ guard.limit >= 1
  /\ guard.counter = guard.limit
  /\ \E c \in Calls : job[c].state = "cancelled"
  /\ \E c \in Calls : job[c].state = "TooManyCalls"
  /\ \E c \in Calls : job[c].state \in {"returned", "raised"}

\* ------------------------------------------------------ claims on retry
\* The call was made with attempts = K >= 1.
AttemptsGiven == ~guarded.cfg.attempts.none /\ guarded.cfg.attempts.n >= 1
K == guarded.cfg.attempts.n
\* The call ended by re-raising a retryable exception.
Exhausted_attempts == guarded.status = "raised" /\ guarded.result.retryable

\* C21: with attempts = K >= 1 func is invoked at most K times for a call;
\* the wrapper goes on to another attempt only while fewer than K were
\* made, and when all K attempts raised an exception of exception_types
\* the call raises the exception of the K-th invocation.
C21_AtMostKInvocationsLastErrorReraised ==
  AttemptsGiven =>
    /\ guarded.calls <= K
    /\ guarded.status = "sleep" => guarded.calls < K
    /\ guarded.outcomes = [i \in 1..K |-> "retryable"] => Exhausted_attempts
    /\ Exhausted_attempts =>
         /\ guarded.calls = K
         /\ guarded.outcomes = [i \in 1..K |-> "retryable"]
         /\ guarded.result = [kind |-> "error", of |-> K, retryable |-> TRUE]
    /\ guarded.status \in {"func", "sleep", "returned", "raised", "cancelled"} =>
         guarded.counter = K - (Len(guarded.sleeps) + IF Exhausted_attempts THEN 1 ELSE 0)

\* Three attempts were made and the third exception was re-raised.
C21_Witness ==
  /\ AttemptsGiven
  /\ K = MaxAttempts
  /\ Exhausted_attempts
  /\ guarded.calls = MaxAttempts

\* C22: a call that returns a value returns the value of the last
\* invocation made, the j-th, all invocations before it having failed and
\* been retried, with j <= attempts when attempts is given; without
\* attempts the call is never ended by a retryable exception and never
\* returns without a value.
C22_FirstSuccessIsReturned ==
  /\ guarded.result.kind = "value" =>
       /\ guarded.status = "returned"
       /\ guarded.result.of = guarded.calls
       /\ guarded.calls >= 1
       /\ guarded.outcomes[guarded.calls] = "return"
       /\ \A i \in 1..(guarded.calls - 1) : guarded.outcomes[i] = "retryable"
       /\ Len(guarded.sleeps) = guarded.calls - 1
       /\ ~guarded.cfg.attempts.none => guarded.calls <= guarded.cfg.attempts.n
  /\ \A j \in 1..Len(guarded.outcomes) :
       guarded.outcomes[j] = "return" =>
         /\ j = guarded.calls
         /\ guarded.result = [kind |-> "value", of |-> j, retryable |-> FALSE]
  /\ guarded.cfg.attempts.none =>
       /\ ~Exhausted_attempts
       /\ guarded.result.kind # "None"
       /\ guarded.status \in {"func", "sleep", "returned", "raised", "cancelled"} =>
            guarded.counter < 0

\* Without attempts, func succeeded after more failures than any attempts
\* argument of the model allows.
C22_Witness ==
  /\ guarded.cfg.attempts.none
  /\ guarded.result.kind = "value"
  /\ guarded.result.of = MaxTries

\* C23: an exception that is not of exception_types ends the call with
\* that exception right after the invocation that raised it: no sleep, no
\* logged retry and no attempt counted for it.
C23_OtherExceptionPropagatesAtOnce ==
  \A i \in 1..Len(guarded.outcomes) :
    guarded.outcomes[i] = "other" =>
      /\ i = guarded.calls
      /\ guarded.status = "raised"
      /\ guarded.result = [kind |-> "error", of |-> i, retryable |-> FALSE]
      /\ Len(guarded.sleeps) = i - 1
      /\ guarded.warnings = i - 1
      /\ guarded.counter = InitialCounter(guarded.cfg.attempts) - (i - 1)

\* The second invocation raised an exception that is not retried, with
\* attempts to spare.
C23_Witness ==
  /\ guarded.status = "raised"
  /\ guarded.outcomes = <<"retryable", "other">>
  /\ guarded.counter >= 2

RECURSIVE Pow(_, _)
Pow(b, e) == IF e = 0 THEN 1 ELSE b * Pow(b, e - 1)

\* C24: the k-th sleep lasts delay * backoff^(k-1) seconds, 0 without a
\* delay; a retry is logged for every sleep; there is one sleep for every
\* failed attempt that was retried, so a call that exhausts K attempts has
\* slept K-1 times, and not after its last attempt.
C24_DelaySchedule ==
  /\ \A k \in 1..Len(guarded.sleeps) :
       guarded.sleeps[k]
         = (IF guarded.cfg.delay.none THEN 0 ELSE guarded.cfg.delay.n)
             * Pow(guarded.cfg.backoff, k - 1)
  /\ guarded.warnings = Len(guarded.sleeps)
  /\ guarded.status = "sleep" => Len(guarded.sleeps) = guarded.calls
  /\ guarded.status \in {"func", "returned", "raised"} /\ guarded.calls >= 1 =>
       Len(guarded.sleeps) = guarded.calls - 1
  /\ AttemptsGiven => Len(guarded.sleeps) <= K - 1
  /\ AttemptsGiven /\ Exhausted_attempts => Len(guarded.sleeps) = K - 1

\* Three attempts with a growing delay were exhausted after two sleeps.
C24_Witness ==
  /\ AttemptsGiven
  /\ Exhausted_attempts
  /\ K = 3
  /\ Len(guarded.sleeps) = 2
  /\ guarded.sleeps[2] > guarded.sleeps[1]

\* ------------------------------------------- claims on limit_jobs setup
\* C25: limit_jobs called with a negative limit raises ValueError and
\* returns no decorator; its decorator applied to something that is not a
\* coroutine function raises ValueError; in both cases there is no wrapper
\* and no call is made.
C25_GuardSetupRejectsBadArguments ==
  /\ guard.limit < 0 =>
       /\ guard.status \in {"new", "failed"}
       /\ guard.status = "failed" => guard.raised = "ValueError:limit"
  /\ guard.limit >= 0 /\ ~guard.coroutine =>
       /\ guard.status \in {"new", "decorator", "failed"}
       /\ guard.status = "failed" => guard.raised = "ValueError:coroutine"
  /\ guard.limit < 0 \/ ~guard.coroutine =>
       \A c \in Calls : job[c] = NoJobs[c]
  /\ guard.status = "failed" => guard.limit < 0 \/ ~guard.coroutine

\* limit_jobs has raised for a negative limit.
C25_Witness ==
  /\ guard.status = "failed"
  /\ guard.limit < 0
  /\ guard.coroutine

\* -------------------------------------------- claims on wrap_in_coroutine
\* C26: wrap_in_coroutine returns a coroutine function unchanged; for a
\* plain function it returns a new coroutine function, and awaiting a call
\* of it with any positional and keyword arguments gives the value or the
\* error that calling the plain function with these arguments gives.
C26_WrapKeepsCoroutinesLiftsFunctions ==
  wrapping.status # "new" =>
    /\ wrapping.func.coroutine => wrapping.wrapped = wrapping.func
    /\ ~wrapping.func.coroutine =>
         /\ wrapping.wrapped.coroutine
         /\ wrapping.wrapped.id # wrapping.func.id
         /\ wrapping.wrapped.wraps = wrapping.func.id
    /\ wrapping.status = "done" =>
         wrapping.awaited = wrapping.func.behaviour[wrapping.input]

\* A plain function whose result depends on its keyword argument was
\* wrapped and called with a positional and a keyword argument.
C26_Witness ==
  /\ wrapping.status = "done"
  /\ ~wrapping.func.coroutine
  /\ wrapping.input = [args |-> <<1>>, kwargs |-> {"k"}]
  /\ wrapping.awaited = "raise"
  /\ wrapping.func.behaviour[[args |-> <<1>>, kwargs |-> {}]] = "a"

\* ------------------------------------------- claims on waiting and time
Suspended(c) == pc[c] \in {"wait1", "wait2", "calc"}

\* C27: no call of the coalescer waits for ever: when the operation does
\* not return, every call of the batch, the dispatching one included,
\* ends (with asyncio.TimeoutError).
C27_NoCallWaitsForever ==
  \A c \in Calls : Suspended(c) ~> pc[c] = "done"

Distributed(c) ==
  /\ pc[c] = "done"
  /\ \/ /\ outcome[c].kind = "value"
        /\ Len(outcome[c].val) = Len(OwnRows(c))
        /\ \A i \in 1..Len(OwnRows(c)) : outcome[c].val[i] = 2 * OwnRows(c)[i]
     \/ /\ outcome[c].kind = "UpstreamError"
        /\ Failed(my_batch_no[c])
        /\ outcome[c].err = ErrorStored(my_batch_no[c])

C28_NoOtherEnd ==
  \A c \in Calls : Admitted(c) /\ pc[c] = "done" => Distributed(c)

\* C28: when every invocation of the operation ends in time and no call
\* is cancelled, every admitted call eventually returns the results of
\* its own rows or raises the error stored for its batch, and no admitted
\* call ends in any other way.
C28_EveryAdmittedCallIsServed ==
  /\ []C28_NoOtherEnd
  /\ \A c \in Calls : Admitted(c) ~> Distributed(c)

\* All calls were admitted and served, one batch failed, one was
\* dispatched at a deadline.
C28_Witness ==
  /\ \A c \in 1..NLive : Admitted(c) /\ Distributed(c)
  /\ \E c \in Calls : outcome[c].kind = "UpstreamError"
  /\ \E c \in Calls : outcome[c].kind = "value"
  /\ \E i \in 1..Len(invocations) : invocations[i].trigger = "timeout"

\* C29: the batch of an admitted call that was not cancelled is dispatched
\* once the call has left its first wait, that is when max_waiting_time
\* has passed since its admission at the latest: another call dispatched
\* it before, or the call dispatches it itself at its deadline.
C29_DispatchedWhenFirstWaitIsOver ==
  \A c \in Calls :
    Admitted(c) /\ pc[c] # "wait1" /\ leaving[c].kind # "CancelledError" =>
      /\ Dispatched(my_batch_no[c])
      /\ my_batch_no[c] < next_free_batch
      /\ InvocationOf(my_batch_no[c]).by # c => pc[InvocationOf(my_batch_no[c]).by] # "wait1"

\* The first wait of a call elapsed after another member had dispatched
\* their batch at its own deadline.
C29_Witness ==
  \E c, d \in Calls :
    /\ c # d
    /\ my_batch_no[c] = my_batch_no[d]
    /\ pc[d] = "wait2"
    /\ \E i \in 1..Len(invocations) :
         invocations[i].by = c /\ invocations[i].trigger = "timeout"

\* C30: batch() called with a max_processing_time that is zero or negative
\* raises at setup: no decorator is returned, no wrapper comes to exist
\* and no call is accepted.
C30_ProcessingTimeValidatedAtSetup ==
  setup.cfg.max_processing_time <= 0 =>
    /\ setup.status \in {"new", "failed"}
    /\ \A c \in Calls : pc[c] = "idle"

\* ------------------------------------------ claims on the readiness signal
\* The members of batch b whose remove_result found the reader count.
Readers(b) ==
  {c \in Members(b) : pc[c] = "done" /\ outcome[c].kind # "KeyError:num_results_ready"}

\* C31: whenever the event of an ordinal is set, the outcome and a reader
\* count are stored for it, the count being the number of calls of the
\* dispatched batch less the calls that have read since; the event of an
\* ordinal is set at most once, and no call finds the outcome missing.
C31_OutcomeAndCountStoredBeforeSignal ==
  /\ \A b \in Ordinals :
       EventIsSet(b) =>
         /\ OutcomeStored(b)
         /\ Dispatched(b)
         /\ InvocationOf(b).n_results = Cardinality(Members(b))
         /\ b \in DOMAIN result_ready_events =>
              /\ b \in DOMAIN results
              /\ b \in DOMAIN num_results_ready
              /\ num_results_ready[b] >= 1
              /\ num_results_ready[b] =
                   Cardinality(Members(b)) - Cardinality(Readers(b))
  /\ \A b \in Ordinals :
       OutcomeStored(b) => EventIsSet(b)
  /\ \A i, j \in 1..Len(stored) : stored[i].batch = stored[j].batch => i = j
  /\ \A c \in Calls :
       /\ outcome[c].kind # "KeyError:results"
       /\ leaving[c].kind # "KeyError:results"

\* The event of a batch of three calls is set: the dispatcher has read, a
\* call woken by the event has read, one is still waiting, and two readers
\* are counted off.
C31_Witness ==
  \E b \in Ordinals :
    /\ b \in DOMAIN result_ready_events
    /\ result_ready_events[b]
    /\ Cardinality(Members(b)) = 3
    /\ num_results_ready[b] = 1
    /\ \E c \in Members(b) : pc[c] = "wait1"

\* C32: a call cancelled in one of its two waits ends as cancelled: its
\* awaiter receives the CancelledError and no error of the cleanup,
\* whether its batch was not yet dispatched, the operation was in flight
\* or the outcome was stored when the cancellation arrived.
C32_CancelledWaiterEndsCancelled ==
  \A c \in Calls :
    CancelledWaiting(c) => outcome[c].kind = "CancelledError"

\* C33: a batch some of whose members left with the TimeoutError of their
\* second wait is still drained: once the operation has returned and the
\* other members have read the outcome, the ordinal has no event, no
\* result and no reader count.
C33_TimedOutBatchIsDrained ==
  \A b \in Ordinals :
    ( /\ \E c \in Members(b) : leaving[c].kind = "TimeoutError"
      /\ OutcomeStored(b)
      /\ \A c \in Members(b) :
           /\ pc[c] = "done"
           /\ leaving[c].kind # "CancelledError" ) =>
        InNoMap(b)

\* The call that dispatched batch b was cancelled while it awaited the
\* operation.
DispatcherCancelled(b) ==
  /\ Dispatched(b)
  /\ leaving[InvocationOf(b).by].kind = "CancelledError"

\* C34: when the dispatching call is cancelled while the operation is in
\* flight, the batch still becomes ResultReady: an outcome and a reader
\* count are stored and the event is set, so that the other members are
\* woken.
C34_CancelledDispatchStillCompletes ==
  \A b \in Ordinals :
    DispatcherCancelled(b) ~> (OutcomeStored(b) /\ EventIsSet(b))

\* ------------------------------------------------- claims on the queue
RECURSIVE QueuedRows(_)
QueuedRows(q) == IF q = <<>> THEN 0 ELSE RowCount(Head(q)) + QueuedRows(Tail(q))

\* C35: wherever a task is suspended, n_rows_in_queue is the sum of the
\* rows of the queued calls, is 0 exactly when the queue is empty and is
\* less than target_batch_size; the batch of an invocation has at most
\* target_batch_size - 1 rows besides the rows of the call that dispatched.
C35_RowCounterMatchesQueueBelowTarget ==
  /\ n_rows_in_queue = QueuedRows(call_args_queue)
  /\ n_rows_in_queue = 0 <=> call_args_queue = <<>>
  /\ n_rows_in_queue < target_batch_size
  /\ \A i \in 1..Len(invocations) :
       RowsOf(invocations[i]) <=
         target_batch_size - 1 + RowCount(call_input[invocations[i].by])

\* A batch of more rows than the target was dispatched by the call that
\* crossed the threshold, and the queue is one row short of the target
\* again.
C35_Witness ==
  /\ n_rows_in_queue = target_batch_size - 1
  /\ Len(call_args_queue) >= 1
  /\ \E i \in 1..Len(invocations) :
       /\ invocations[i].trigger = "size"
       /\ RowsOf(invocations[i]) = target_batch_size + 1
       /\ RowCount(call_input[invocations[i].by]) = 2

\* The rows of the dispatching call are part of the batch it hands over.
OwnRowsInBatch(i) ==
  LET c == invocations[i].by IN
  /\ my_batch_no[c] = invocations[i].batch
  /\ stop_index[c] <= RowsOf(invocations[i])
  /\ SubSeq(FirstColumn(invocations[i]), start_index[c] + 1, stop_index[c]) = OwnRows(c)

\* C36: the operation is never invoked for an empty batch: the queue a
\* dispatch pops holds at least one call, the dispatching call's own among
\* them, whatever calls were cancelled or rejected before.
C36_NoEmptyBatchIsDispatched ==
  /\ \A i \in 1..Len(invocations) :
       /\ invocations[i].n_results >= 1
       /\ RowsOf(invocations[i]) >= invocations[i].n_results
       /\ OwnRowsInBatch(i)
  /\ \A c \in Calls :
       /\ outcome[c].kind # "IndexError"
       /\ leaving[c].kind # "IndexError"

\* A batch was dispatched at the deadline of its last member, after a
\* member of it was cancelled and a call was rejected.
C36_Witness ==
  \E c, d, e \in Calls :
    /\ my_batch_no[c] = my_batch_no[d]
    /\ CancelledWaiting(c)
    /\ Rejected(e)
    /\ e < d
    /\ \E i \in 1..Len(invocations) :
         /\ invocations[i].by = d
         /\ invocations[i].trigger = "timeout"
         /\ invocations[i].n_results = 2
         /\ \A j \in 1..(i - 1) : invocations[j].batch # my_batch_no[c]

\* The rows queued for batch b when it was dispatched.
BatchRows(b) == Max({stop_index[c] : c \in Members(b)})

\* C37: every argument vector the operation is invoked with, positional
\* or keyword, has as many elements as rows were queued for the batch,
\* whatever calls admission accepted.
C37_EveryColumnHasTheRowsOfTheBatch ==
  \A i \in 1..Len(invocations) :
    /\ \A j \in 1..Len(invocations[i].args) :
         Len(invocations[i].args[j]) = BatchRows(invocations[i].batch)
    /\ \A k \in invocations[i].keys :
         Len(invocations[i].kwargs[k]) = BatchRows(invocations[i].batch)

\* ------------------------------------------------ claims on retry, again
\* C38: retry(attempts=0) is accepted, and a call of its wrapper does not
\* succeed silently: it invokes the operation or raises, and never returns
\* None without having invoked the operation.
C38_ZeroAttemptsDoNotSucceedSilently ==
  guarded.cfg.attempts = Some(0) =>
    /\ guarded.raised # "ValueError:attempts"
    /\ guarded.status = "returned" =>
         /\ guarded.calls >= 1
         /\ guarded.result.kind # "None"
====
